---------------------------- MODULE Spec2Model ----------------------------
(* A model of gst-inspect-rs (src/src/main.rs): the List-mode and          *)
(* Detail-mode report generator over the GStreamer registry.               *)
(*                                                                         *)
(* Standard output is modelled as the sequence of string tokens the        *)
(* print!/println! calls emit, in order; the token NL ends a line. Colour  *)
(* markup is dropped: ansi_term only wraps a token.                        *)
EXTENDS Integers, Sequences, FiniteSets, TLC

VARIABLES
    pc,          \* position of the process: which function body runs next
    out,         \* standard output of the current run: a sequence of tokens
    st,          \* main's `st`, the status handed to std::process::exit
    arg,         \* the positional argument ELEMENT-NAME | PLUGIN-NAME, or None
    registry,    \* gst::Registry: plugins and features in enumeration order
    factory,     \* what the feature found for `arg` loads to and instantiates
    propIdx,     \* print_element_properties: index of the next pspec of the loop
    runs,        \* number of process runs started so far
    prevOut,     \* standard output of the previous run (empty before run 2)
    typeParent,  \* glib type system: type -> its parent, or NoType for a root
    input,       \* the argument of the function a component run applies
    calls,       \* hierarchy_foreach: the callback's arguments, in call order
    liveReads,   \* number of obj.property() reads of the element instance
    trace        \* the framework calls of the current run, in call order

vars == <<pc, out, st, arg, registry, factory, propIdx, runs, prevOut,
          typeParent, input, calls, liveReads, trace>>

-----------------------------------------------------------------------------
(* Bounds of the model.                                                    *)

MaxTypes == 4
MaxStructs == 2
MaxRuns == 2

-----------------------------------------------------------------------------
(* Text helpers.                                                           *)

None == "<none>"
NoType == 0 - 1

RECURSIVE Spaces(_)
Spaces(n) == IF n <= 0 THEN "" ELSE " " \o Spaces(n - 1)

RECURSIVE Repeat(_, _)
Repeat(s, n) == IF n <= 0 THEN "" ELSE s \o Repeat(s, n - 1)

Digit(d) ==
    CASE d = 0 -> "0" [] d = 1 -> "1" [] d = 2 -> "2" [] d = 3 -> "3"
      [] d = 4 -> "4" [] d = 5 -> "5" [] d = 6 -> "6" [] d = 7 -> "7"
      [] d = 8 -> "8" [] d = 9 -> "9"

RECURSIVE NatToString(_)
NatToString(n) ==
    IF n < 10 THEN Digit(n) ELSE NatToString(n \div 10) \o Digit(n % 10)

\* i32/u32::to_string
to_string(n) == IF n < 0 THEN "-" \o NatToString(0 - n) ELSE NatToString(n)

\* format!("{:<width$}", s)
PadRight(s, width) == s \o Spaces(width - Len(s))

\* format!("{:>width$}", s)
PadLeft(s, width) == Spaces(width - Len(s)) \o s

NL == "\n"

\* println!(...): the formatted tokens, then the line end
println(tokens) == tokens \o <<NL>>

\* The lines of an output: the tokens before each NL.
RECURSIVE LinesFrom(_, _)
LinesFrom(stream, cur) ==
    IF stream = <<>> THEN (IF cur = <<>> THEN <<>> ELSE <<cur>>)
    ELSE IF Head(stream) = NL THEN <<cur>> \o LinesFrom(Tail(stream), <<>>)
    ELSE LinesFrom(Tail(stream), Append(cur, Head(stream)))

Lines(stream) == LinesFrom(stream, <<>>)

RECURSIVE Flatten(_)
Flatten(seqs) ==
    IF seqs = <<>> THEN <<>> ELSE Head(seqs) \o Flatten(Tail(seqs))

-----------------------------------------------------------------------------
(* Type Hierarchy Linearizer.                                              *)

Types == 0 .. (MaxTypes - 1)

\* glib::Type::name
TypeName(t) == "T" \o to_string(t)

\* The parent maps the type system can hold: a type is registered after its
\* parent, so every chain is finite and acyclic.
ParentMaps ==
    { p \in [Types -> Types \cup {NoType}] : \A t \in Types : p[t] < t }

\* A walk that calls the callback before it recurses into the parent: the
\* leaf comes first.
RECURSIVE hierarchy_foreach_leaf_first(_, _)
hierarchy_foreach_leaf_first(parent, type_) ==
    <<type_>> \o
    (IF parent[type_] # NoType
        THEN hierarchy_foreach_leaf_first(parent, parent[type_]) ELSE <<>>)

\* hierarchy_foreach(type_, foreach_func): the arguments foreach_func is
\* called with, in call order.
RECURSIVE hierarchy_foreach(_, _)
hierarchy_foreach(parent, type_) ==
    (IF parent[type_] # NoType
        THEN hierarchy_foreach(parent, parent[type_]) ELSE <<>>)
    \o <<type_>>

\* The closure of print_hierarchy, called with cur_type when `level` types
\* have been printed before it.
hierarchy_line(cur_type, level) ==
    (IF level > 0 THEN <<Repeat("     ", level - 1), " +----">> ELSE <<>>)
    \o println(<<TypeName(cur_type)>>)

print_hierarchy(parent, type_) ==
    LET visited == hierarchy_foreach(parent, type_)
    IN  Flatten([i \in 1 .. Len(visited) |-> hierarchy_line(visited[i], i - 1)])
        \o println(<<>>)

-----------------------------------------------------------------------------
(* Capability Structure Renderer.                                          *)

\* v.serialize() of a field that cannot be serialized returns Err.
SerErr == "<serialize-error>"

\* gst::CapsFeatures values: the ANY marker, or a list of feature names.
\* caps.features(i) is an Option: None stands for "no features".
MEMORY_SYSTEM_MEMORY == [any |-> FALSE, list |-> <<"memory:SystemMemory">>]
FeaturesAny == [any |-> TRUE, list |-> <<>>]
FeaturesGL == [any |-> FALSE, list |-> <<"memory:GLMemory">>]
NoFeatures == [any |-> FALSE, list |-> <<None>>]

FeatureChoices == {NoFeatures, MEMORY_SYSTEM_MEMORY, FeaturesAny, FeaturesGL}

\* CapsFeatures::is_equal: ANY equals only ANY; otherwise the name lists agree.
features_is_equal(f, g) ==
    IF f.any \/ g.any THEN f.any = g.any ELSE f.list = g.list

RECURSIVE JoinComma(_)
JoinComma(names) ==
    IF names = <<>> THEN ""
    ELSE IF Len(names) = 1 THEN names[1]
    ELSE names[1] \o ", " \o JoinComma(Tail(names))

\* CapsFeatures::to_string
features_to_string(f) == IF f.any THEN "ANY" ELSE JoinComma(f.list)

\* A first match arm without its guard: every Some(f) is shown.
show_features_always(f) == f # NoFeatures

\* The first match arm of print_caps (line 184): Some(f) and its guard.
show_features(f) ==
    /\ f # NoFeatures
    /\ (f.any \/ ~features_is_equal(f, MEMORY_SYSTEM_MEMORY))

\* The header line of one structure (lines 183-197).
caps_header(structure) ==
    IF show_features(structure.features)
        THEN println(<<Spaces(6), structure.name, "(",
                       features_to_string(structure.features), ")">>)
        ELSE println(<<Spaces(6), structure.name>>)

\* The closure handed to structure.foreach (lines 199-206): what it prints
\* for field q with value v.
caps_field(field) ==
    IF field.value # SerErr
        THEN println(<<PadLeft(field.name, 23), ": ", field.value>>)
        ELSE <<>>

\* structure.foreach with a closure that stops at the first field that does
\* not serialize.
RECURSIVE structure_foreach_break(_)
structure_foreach_break(fields) ==
    IF fields = <<>> \/ Head(fields).value = SerErr THEN <<>>
    ELSE caps_field(Head(fields)) \o structure_foreach_break(Tail(fields))

\* structure.foreach(|q, v| ...): the closure always returns
\* ControlFlow::Continue, so every field is visited, in the structure's order.
RECURSIVE structure_foreach(_)
structure_foreach(fields) ==
    IF fields = <<>> THEN <<>>
    ELSE caps_field(Head(fields)) \o structure_foreach(Tail(fields))

caps_is_any(caps) == caps.any
caps_is_empty(caps) == ~caps.any /\ caps.structs = <<>>

print_caps(caps) ==
    IF caps_is_any(caps) THEN println(<<Spaces(6), "ANY">>)
    ELSE IF caps_is_empty(caps) THEN println(<<Spaces(6), "EMPTY">>)
    ELSE Flatten([i \in 1 .. Len(caps.structs) |->
                    caps_header(caps.structs[i])
                    \o structure_foreach(caps.structs[i].fields)])

\* The inputs of the renderer's runs.
FieldNames == {"width", "height", "format"}

\* A field serializes to its value, except "format", which does not.
FieldOf(name) ==
    [name |-> name,
     value |-> CASE name = "width" -> "640" [] name = "height" -> "480"
                 [] OTHER -> SerErr]

RECURSIVE SeqsOver(_, _)
SeqsOver(S, n) ==
    IF n = 0 THEN {<<>>}
    ELSE LET shorter == SeqsOver(S, n - 1)
         IN  shorter \cup
             { Append(s, x) : s \in { t \in shorter : Len(t) = n - 1 }, x \in S }

Distinct(s) == \A i, j \in 1 .. Len(s) : i # j => s[i] # s[j]

FieldLists ==
    { [i \in 1 .. Len(names) |-> FieldOf(names[i])] :
        names \in { s \in SeqsOver(FieldNames, Cardinality(FieldNames)) :
                      Distinct(s) } }

Structures ==
    [name : {"video/x-raw"}, features : FeatureChoices, fields : FieldLists]

CapsANY == [any |-> TRUE, structs |-> <<>>]
CapsEMPTY == [any |-> FALSE, structs |-> <<>>]

CapsSets ==
    {CapsANY} \cup { [any |-> FALSE, structs |-> s] :
                        s \in SeqsOver(Structures, MaxStructs) }

-----------------------------------------------------------------------------
(* Property Value Formatter.                                               *)

ParamFlags ==
    {"READABLE", "WRITABLE", "DEPRECATED", "CONTROLLABLE",
     "MUTABLE_PLAYING", "MUTABLE_PAUSED", "MUTABLE_READY"}

\* flags_to_string of print_pspec_flags (lines 362-373), entry by entry.
flags_to_string(flag) ==
    CASE flag = "READABLE" -> "writable"
      [] flag = "WRITABLE" -> "readable"
      [] flag = "DEPRECATED" -> "deprecated"
      [] flag = "CONTROLLABLE" -> "controllable"
      [] flag = "MUTABLE_PLAYING" ->
            "changeable in NULL, READY, PAUSED or PLAYING state"
      [] flag = "MUTABLE_PAUSED" ->
            "changeable only in NULL, READY or PAUSED state"
      [] flag = "MUTABLE_READY" -> "changeable only in NULL or READY state"

\* The label the report is to show for a flag: its own name.
FlagLabel(flag) ==
    CASE flag = "READABLE" -> "readable"
      [] flag = "WRITABLE" -> "writable"
      [] OTHER -> flags_to_string(flag)

RECURSIVE Perms(_)
Perms(S) ==
    IF S = {} THEN {<<>>}
    ELSE UNION { { <<x>> \o p : p \in Perms(S \ {x}) } : x \in S }

\* flags_to_string.iter(): a std HashMap with the default RandomState hasher
\* yields its entries in an order that depends on the hasher's random keys,
\* drawn anew for every map: any order of the 7 keys can come out.
HashMapIterOrders == Perms(ParamFlags)

\* The loop of print_pspec_flags (lines 378-389) over the entries in
\* iteration order `order`.
RECURSIVE pspec_flags_loop(_, _, _)
pspec_flags_loop(order, flags, first_flag) ==
    IF order = <<>> THEN <<>>
    ELSE IF Head(order) \notin flags
        THEN pspec_flags_loop(Tail(order), flags, first_flag)
    ELSE (IF ~first_flag THEN <<", ">> ELSE <<>>)
         \o <<flags_to_string(Head(order))>>
         \o pspec_flags_loop(Tail(order), flags, FALSE)

print_pspec_flags(pspec, indent, order) ==
    <<Spaces(indent), "flags", ": ">>
    \o println(pspec_flags_loop(order, pspec.flags, TRUE))

\* glib::Value: a type tag and the payload of that type (the other payload
\* fields are unused). `null` is the absent string or caps (Option None).
MkValue(type, null, s, b, n, caps) ==
    [type |-> type, null |-> null, s |-> s, b |-> b, n |-> n, caps |-> caps]

StringValue(s) == MkValue("STRING", FALSE, s, FALSE, 0, CapsEMPTY)
NullString == MkValue("STRING", TRUE, "", FALSE, 0, CapsEMPTY)
BoolValue(b) == MkValue("BOOL", FALSE, "", b, 0, CapsEMPTY)
NumValue(type, n) == MkValue(type, FALSE, "", FALSE, n, CapsEMPTY)
CapsValue(caps) == MkValue("CAPS", FALSE, "", FALSE, 0, caps)
NullCaps == MkValue("CAPS", TRUE, "", FALSE, 0, CapsEMPTY)

\* bool::to_string
bool_to_string(b) == IF b THEN "true" ELSE "false"

\* value.get::<T>() is Ok only when the value holds exactly T's GType.
value_get_ok(value, requested) == value.type = requested

\* A selection that reads the instance whatever `readable` says.
select_value_live(obj, pspec, readable) ==
    [value |-> obj[pspec.name], reads |-> 1]

\* The value print_default_property_value formats (lines 435-439), with the
\* number of obj.property() reads it made.
select_value(obj, pspec, readable) ==
    IF readable
        THEN [value |-> obj[pspec.name], reads |-> 1]
        ELSE [value |-> pspec.default_value, reads |-> 0]

\* print_ranged_property!(value, pspec, pspec_type, t, title, indent)
print_ranged_property(value, pspec, t, title, indent) ==
    <<Spaces(indent), ": ", title, ". ", "Range", ": ",
      to_string(pspec.minimum), " - ", to_string(pspec.maximum), ". ",
      "Default", ": ">>
    \o (IF value_get_ok(value, t) THEN <<to_string(value.n)>> ELSE <<>>)

\* The STRING arm (lines 443-453).
print_string_value(value, indent) ==
    <<Spaces(indent), ": ", "String", ". ", "Default", ": ">>
    \o (IF value.null THEN <<"null">> ELSE <<"\"" \o value.s \o "\"">>)

\* The BOOL arm (lines 454-463).
print_bool_value(value, indent) ==
    <<Spaces(indent), ": ", "Boolean", ". ", "Default", ": ">>
    \o <<"\"" \o bool_to_string(value.b) \o "\"">>

\* The match on value.type_() (lines 442-473).
print_value_match(value, pspec, indent) ==
    CASE value.type = "STRING" -> print_string_value(value, indent)
      [] value.type = "BOOL" -> print_bool_value(value, indent)
      [] value.type = "I_LONG" ->
            print_ranged_property(value, pspec, "I64", "Long", indent)
      [] value.type = "U_LONG" ->
            print_ranged_property(value, pspec, "U64", "Unsigned Long", indent)
      [] value.type = "U32" ->
            print_ranged_property(value, pspec, "U32", "Unsigned Integer", indent)
      [] value.type = "I32" ->
            print_ranged_property(value, pspec, "I32", "Integer", indent)
      [] value.type = "U64" ->
            print_ranged_property(value, pspec, "U64", "Unsigned Integer64", indent)
      [] value.type = "I64" ->
            print_ranged_property(value, pspec, "I64", "Integer64", indent)
      [] value.type = "F32" ->
            print_ranged_property(value, pspec, "F32", "Float", indent)
      [] value.type = "F64" ->
            print_ranged_property(value, pspec, "F64", "Double", indent)
      [] OTHER -> <<>>

\* value.get::<&glib::EnumValue>(): the class's entries with the value's number.
enum_entries(value, pspec) ==
    { i \in 1 .. Len(pspec.enum_values) : pspec.enum_values[i].value = value.n }

\* The ENUM block (lines 475-499).
print_enum_value(value, pspec, indent) ==
    IF value.type # "ENUM" \/ enum_entries(value, pspec) = {} THEN <<>>
    ELSE LET val == pspec.enum_values[CHOOSE i \in enum_entries(value, pspec) :
                        \A j \in enum_entries(value, pspec) : i <= j]
         IN  <<Spaces(indent), ": ", "Enum", ". ", "Default", ": ",
               to_string(val.value) \o ", \"" \o val.nick \o "\"">>
             \o Flatten([i \in 1 .. Len(pspec.enum_values) |->
                  <<NL, Spaces(2 + 20 + 1 + 1),
                    "(" \o to_string(i - 1) \o ")", ": ",
                    PadRight(pspec.enum_values[i].nick, 16), " - ",
                    pspec.enum_values[i].name>>])

\* The gst::Caps block (lines 512-519).
print_caps_value(value) ==
    IF value.type # "CAPS" THEN <<>>
    ELSE IF value.null THEN println(<<"Caps (NULL)">>)
    ELSE print_caps(value.caps)

\* print_default_property_value(obj, pspec, readable, indent): the text it
\* prints and the reads of the instance it makes. The FLAGS block (lines
\* 501-510) is empty.
print_default_property_value(obj, pspec, readable, indent) ==
    LET sel == select_value(obj, pspec, readable)
        value == sel.value
    IN  [out |-> print_value_match(value, pspec, indent)
                 \o print_enum_value(value, pspec, indent)
                 \o print_caps_value(value)
                 \o println(<<>>),
         reads |-> sel.reads]

-----------------------------------------------------------------------------
(* Registry and List mode.                                                 *)

MaxPlugins == 2
MaxFeatures == 2

\* str::as_str / as_bytes of the names the model's registries use.
Bytes(name) ==
    CASE name = "B" -> <<66>>
      [] name = "X" -> <<88>>
      [] name = "a" -> <<97>>
      [] name = "ab" -> <<97, 98>>
      [] name = "blocksize" -> <<98, 108, 111, 99, 107, 115, 105, 122, 101>>
      [] name = "caps" -> <<99, 97, 112, 115>>
      [] name = "flags" -> <<102, 108, 97, 103, 115>>
      [] name = "name" -> <<110, 97, 109, 101>>
      [] name = "parent" -> <<112, 97, 114, 101, 110, 116>>
      [] name = "priority" -> <<112, 114, 105, 111, 114, 105, 116, 121>>
      [] name = "silent" -> <<115, 105, 108, 101, 110, 116>>
      [] name = "sink" -> <<115, 105, 110, 107>>
      [] name = "src" -> <<115, 114, 99>>
      [] name = "src_%u" -> <<115, 114, 99, 95, 37, 117>>
      [] name = "template" -> <<116, 101, 109, 112, 108, 97, 116, 101>>
      [] name = "typefind" -> <<116, 121, 112, 101, 102, 105, 110, 100>>
      [] name = "x" -> <<120>>
      [] name = "xy" -> <<120, 121>>
      [] name = "y" -> <<121>>

\* <[u8] as Ord>::cmp(a, b) = Less: lexicographic order on the bytes.
RECURSIVE bytes_lt(_, _)
bytes_lt(a, b) ==
    IF b = <<>> THEN FALSE
    ELSE IF a = <<>> THEN TRUE
    ELSE IF Head(a) # Head(b) THEN Head(a) < Head(b)
    ELSE bytes_lt(Tail(a), Tail(b))

\* str::cmp(a, b) = Less
str_lt(a, b) == bytes_lt(Bytes(a), Bytes(b))

Range(seq) == { seq[i] : i \in 1 .. Len(seq) }

\* slice::sort_by comparing key[x] as strings: a stable sort, by insertion.
RECURSIVE insert_sorted(_, _, _)
insert_sorted(sorted, x, key) ==
    IF sorted = <<>> THEN <<x>>
    ELSE IF str_lt(key[x], key[Head(sorted)])
        THEN <<x>> \o sorted
    ELSE <<Head(sorted)>> \o insert_sorted(Tail(sorted), x, key)

RECURSIVE sort_by(_, _)
sort_by(seq, key) ==
    IF seq = <<>> THEN <<>>
    ELSE insert_sorted(sort_by(SubSeq(seq, 1, Len(seq) - 1), key),
                       seq[Len(seq)], key)

\* The key |p| p.name() of a sort over seq
name_key(seq) == [x \in Range(seq) |-> x.name]

\* registry.features_by_plugin(name), in the registry's enumeration order
features_by_plugin(reg, name) ==
    SelectSeq(reg.features, LAMBDA f : f.plugin = name)

\* feature.downcast_ref::<gst::ElementFactory>() is Some
is_element_factory(feature) == feature.kind = "ElementFactory"

\* The body of the inner loop of print_element_list (lines 63-70).
element_list_line(plugin, feature) ==
    IF is_element_factory(feature)
        THEN println(<<plugin.name, ":  ", feature.name, ": ", feature.longname>>)
        ELSE <<>>

\* print_element_list without its two sorts.
print_element_list_unsorted(reg) ==
    Flatten([i \in 1 .. Len(reg.plugins) |->
        LET plugin == reg.plugins[i]
            features == features_by_plugin(reg, plugin.name)
        IN  Flatten([j \in 1 .. Len(features) |->
                        element_list_line(plugin, features[j])])])

print_element_list(reg) ==
    LET plugins == sort_by(reg.plugins, name_key(reg.plugins))
    IN  Flatten([i \in 1 .. Len(plugins) |->
            LET plugin == plugins[i]
                unsorted == features_by_plugin(reg, plugin.name)
                features == sort_by(unsorted, name_key(unsorted))
            IN  Flatten([j \in 1 .. Len(features) |->
                            element_list_line(plugin, features[j])])])

\* The registries of the model: plugins and features with unique names, in
\* any enumeration order.
NonUtf8 == "<non-utf8 path>"

MkPlugin(name, filename, release_date) ==
    [name |-> name, description |-> "plugin " \o name, filename |-> filename,
     version |-> "1.22.0", license |-> "LGPL", source |-> "gst-plugins",
     release_date |-> release_date, package |-> "GStreamer",
     origin |-> "https://gstreamer.freedesktop.org"]

MkFeature(name, kind, plugin) ==
    [name |-> name, kind |-> kind, plugin |-> plugin,
     longname |-> "Long " \o name]

PluginNames == {"B", "a", "ab"}
FeatureNames == {"X", "x", "xy"}
FeatureKinds == {"ElementFactory", "TypeFindFactory"}

PluginLists ==
    { [i \in 1 .. Len(names) |-> MkPlugin(names[i], "/lib/gst.so", None)] :
        names \in { s \in SeqsOver(PluginNames, MaxPlugins) : Distinct(s) } }

FeatureLists(plugins) ==
    LET owners == { plugins[i].name : i \in 1 .. Len(plugins) } \cup {None}
        features == { MkFeature(n, k, o) :
                        n \in FeatureNames, k \in FeatureKinds, o \in owners }
    IN  { s \in SeqsOver(features, MaxFeatures) :
            \A i, j \in 1 .. Len(s) : i # j => s[i].name # s[j].name }

Registries ==
    UNION { { [plugins |-> ps, features |-> fs] : fs \in FeatureLists(ps) } :
              ps \in PluginLists }

-----------------------------------------------------------------------------
(* Report Assembler: the sections of the Detail-mode report.               *)

get_rank_name(rank) ==
    CASE rank = "None" -> [name |-> "none", value |-> 0]
      [] rank = "Marginal" -> [name |-> "marginal", value |-> 64]
      [] rank = "Secondary" -> [name |-> "secondary", value |-> 128]
      [] rank = "Primary" -> [name |-> "primary", value |-> 256]
      [] OTHER -> [name |-> "none", value |-> 0]

print_property(name, value, width, indent, colon) ==
    println(<<Spaces(indent), PadRight(name, width),
              IF colon THEN ": " ELSE "", value>>)

print_property_details(name, value) == print_property(name, value, 25, 2, FALSE)

print_factory_details_info(f) ==
    LET r == get_rank_name(f.rank)
    IN  println(<<"Factory details:">>)
        \o print_property_details("Rank",
              r.name \o " (" \o to_string(r.value) \o ")")
        \o print_property_details("Long name", f.longname)
        \o print_property_details("Klass", f.klass)
        \o print_property_details("Description", f.description)
        \o print_property_details("Author", f.author)
        \o println(<<>>)

\* print_plugin_info(plugin): what it prints, and whether the unwrap of the
\* file name's conversion to a String panics (line 115).
print_plugin_info(plugin) ==
    LET head == println(<<"Plugin details:">>)
                \o print_property_details("Name", plugin.name)
                \o print_property_details("Description", plugin.description)
        rest == print_property_details("Filename",
                    IF plugin.filename = None THEN "(null)" ELSE plugin.filename)
                \o print_property_details("Version", plugin.version)
                \o print_property_details("License", plugin.license)
                \o print_property_details("Source module", plugin.source)
                \o (IF plugin.release_date # None
                      THEN print_property_details("Source release date",
                                                  plugin.release_date)
                      ELSE <<>>)
                \o print_property_details("Binary package", plugin.package)
                \o print_property_details("Origin URL", plugin.origin)
                \o println(<<>>)
    IN  IF plugin.filename = NonUtf8
            THEN [out |-> head, panic |-> TRUE]
            ELSE [out |-> head \o rest, panic |-> FALSE]

print_interfaces(interfaces) ==
    IF interfaces = <<>> THEN <<>>
    ELSE println(<<"Implemented Interfaces", ":">>)
         \o Flatten([i \in 1 .. Len(interfaces) |->
                        println(<<"  ", interfaces[i]>>)])
         \o println(<<>>)

pad_presence_name(presence) ==
    CASE presence = "Always" -> "Always"
      [] presence = "Sometimes" -> "Sometimes"
      [] presence = "Request" -> "On request"

template_direction_name(direction) ==
    CASE direction = "Src" -> "SOURCE"
      [] direction = "Sink" -> "SINK"
      [] direction = "Unknown" -> "UNKNOWN"

\* The key |t| t.name_template() of a sort over seq
name_template_key(seq) == [x \in Range(seq) |-> x.name_template]

\* The body of the loop of print_pad_templates_info (lines 226-252).
print_pad_template(pad_tmpl) ==
    print_property(template_direction_name(pad_tmpl.direction) \o " template",
                   "'" \o pad_tmpl.name_template \o "'", 0, 2, TRUE)
    \o print_property("Availability", pad_presence_name(pad_tmpl.presence),
                      0, 2 * 2, TRUE)
    \o print_property("Capabilities", "", 0, 2 * 2, TRUE)
    \o print_caps(pad_tmpl.caps)
    \o println(<<>>)

print_pad_templates_info(f) ==
    println(<<"Pad Templates", ":">>)
    \o (IF Len(f.pad_templates) = 0 THEN println(<<" none">>)
        ELSE LET pad_templates ==
                    sort_by(f.pad_templates, name_template_key(f.pad_templates))
             IN  Flatten([i \in 1 .. Len(pad_templates) |->
                            print_pad_template(pad_templates[i])]))

print_clocking_info(element) ==
    LET requires_clock == "REQUIRE_CLOCK" \in element.flags
        provides_clock == "PROVIDE_CLOCK" \in element.flags
    IN  IF requires_clock \/ provides_clock
            THEN println(<<>>)
                 \o print_property("Clocking interaction", "", 0, 0, TRUE)
                 \o <<Spaces(2)>>
                 \o (IF requires_clock
                        THEN println(<<"element requires a clock">>) ELSE <<>>)
                 \o (IF provides_clock
                        THEN (IF element.clock # None
                                THEN println(<<"element provides a clock", ": ",
                                               element.clock>>)
                                ELSE println(<<"element is supposed to provide a clock but returned NULL">>))
                        ELSE <<>>)
            ELSE println(<<"Element has no clocking capabilities.">>)

uri_type_name(uri_type) ==
    CASE uri_type = "Src" -> "source"
      [] uri_type = "Sink" -> "sink"
      [] uri_type = "Unknown" -> "unknown"

print_uri_handler_info(element) ==
    IF element.uri.handler
        THEN println(<<>>)
             \o println(<<"URI handling capabilities:">>)
             \o println(<<Spaces(2), "Element can act as ",
                          uri_type_name(element.uri.type), ".">>)
             \o (IF element.uri.protocols = <<>>
                    THEN println(<<Spaces(2), "No supported URI protocols">>)
                    ELSE println(<<Spaces(2), "Supported URI protocols:">>))
             \o Flatten([i \in 1 .. Len(element.uri.protocols) |->
                           println(<<Repeat(Spaces(2), 2),
                                     element.uri.protocols[i]>>)])
        ELSE println(<<"Element has no URI handling capabilities.">>)

pad_direction_name(direction) ==
    CASE direction = "Src" -> "SRC"
      [] direction = "Sink" -> "SINK"
      [] direction = "Unknown" -> "UNKNOWN"

\* The body of the loop of print_pad_info (lines 331-358).
print_pad(pad) ==
    print_property(pad_direction_name(pad.direction),
                   "'" \o pad.name \o "'", 0, 2, TRUE)
    \o (IF pad.pad_template # None
          THEN print_property("Pad Template", "'" \o pad.pad_template \o "'",
                              0, 2 * 2, TRUE)
          ELSE <<>>)
    \o (IF pad.has_caps
          THEN print_property("Capabilities", "", 0, 2 * 2, TRUE)
               \o print_caps(pad.current_caps)
          ELSE <<>>)

print_pad_info(element) ==
    println(<<>>)
    \o println(<<"Pads:">>)
    \o (IF Len(element.pads) = 0 THEN println(<<Spaces(2), "none">>) ELSE <<>>)
    \o Flatten([i \in 1 .. Len(element.pads) |-> print_pad(element.pads[i])])

\* glib::types::Type::OBJECT, gst::Object::static_type() and
\* gst::Pad::static_type() in the model's type system.
TYPE_OBJECT == 0
TYPE_GST_OBJECT == 1
TYPE_GST_PAD == 2

\* The filter of print_element_properties (lines 538-543).
is_base_property(pspec) ==
    \/ pspec.owner_type = TYPE_OBJECT
    \/ pspec.owner_type = TYPE_GST_OBJECT
    \/ pspec.owner_type = TYPE_GST_PAD

\* property_specs as list_properties returns them, the sort left out.
unsorted_property_specs(element) == element.props

\* property_specs after the sort of line 530
sorted_property_specs(element) ==
    sort_by(element.props, name_key(element.props))

\* The head of print_element_properties (lines 532-533).
print_element_properties_head == println(<<"Element Properties", ":">>) \o println(<<>>)

\* One turn of the loop of print_element_properties (lines 535-550) for
\* pspec, the flag table being iterated in `order`: what it prints, the reads
\* of the instance it makes, and whether blurb().unwrap() panics.
print_element_property(element, pspec, order) ==
    IF is_base_property(pspec)
        THEN [out |-> <<>>, reads |-> 0, panic |-> FALSE]
    ELSE IF pspec.blurb = None
        THEN [out |-> <<>>, reads |-> 0, panic |-> TRUE]
    ELSE LET readable == "READABLE" \in pspec.flags
             val == print_default_property_value(element.values, pspec,
                                                 readable, 20 + 1 + 1)
         IN  [out |-> print_property(pspec.name, pspec.blurb, 20, 2, TRUE)
                      \o print_pspec_flags(pspec, 2 + 20 + 1 + 1, order)
                      \o val.out,
              reads |-> val.reads,
              panic |-> FALSE]

-----------------------------------------------------------------------------
(* The elements, factories and registries Detail mode is run on.           *)

MkPSpec(name, blurb, flags, owner_type, default_value, minimum, maximum, enum_values) ==
    [name |-> name, blurb |-> blurb, flags |-> flags, owner_type |-> owner_type,
     default_value |-> default_value, minimum |-> minimum, maximum |-> maximum,
     enum_values |-> enum_values]

\* The type system of a Detail-mode run: GObject, GstObject below it, GstPad
\* and the element types below GstObject.
StdParent ==
    [t \in Types |->
        CASE t = TYPE_OBJECT -> NoType
          [] t = TYPE_GST_OBJECT -> TYPE_OBJECT
          [] t = TYPE_GST_PAD -> TYPE_GST_OBJECT
          [] t = TYPE_GST_PAD + 1 -> TYPE_GST_OBJECT
          [] OTHER -> t - 1]

ElementTypes == { t \in Types : t > TYPE_GST_PAD }

PriorityEnum ==
    <<[value |-> 0, nick |-> "low", name |-> "Low priority"],
      [value |-> 1, nick |-> "high", name |-> "High priority"]>>

VideoCaps(features) ==
    [any |-> FALSE,
     structs |-> <<[name |-> "video/x-raw", features |-> features,
                    fields |-> <<FieldOf("width"), FieldOf("format"),
                                 FieldOf("height")>>]>>]

PSilent(flags) ==
    MkPSpec("silent", "Produce verbose output", flags, TYPE_GST_PAD + 1,
            BoolValue(FALSE), 0, 0, <<>>)
PBlocksize(flags) ==
    MkPSpec("blocksize", "Size in bytes to read per buffer", flags,
            TYPE_GST_PAD + 1, NumValue("U32", 50), 0, 100, <<>>)
PName ==
    MkPSpec("name", "The name of the object", {"READABLE", "WRITABLE"},
            TYPE_GST_OBJECT, NullString, 0, 0, <<>>)
PParent ==
    MkPSpec("parent", "The parent of the object", {"READABLE", "WRITABLE"},
            TYPE_OBJECT, NumValue("OTHER", 0), 0, 0, <<>>)
PTemplate ==
    MkPSpec("template", "The GstPadTemplate of this pad", {"READABLE"},
            TYPE_GST_PAD, NumValue("OTHER", 0), 0, 0, <<>>)
PNoBlurb ==
    MkPSpec("typefind", None, {"READABLE"}, TYPE_GST_PAD + 1,
            BoolValue(TRUE), 0, 0, <<>>)
PFlagsTyped ==
    MkPSpec("flags", "Flags to control behaviour", {"WRITABLE"},
            TYPE_GST_PAD + 1, NumValue("FLAGS", 3), 0, 0, <<>>)
PPriority ==
    MkPSpec("priority", "Scheduling priority", {"READABLE"}, TYPE_GST_PAD + 1,
            NumValue("ENUM", 0), 0, 0, PriorityEnum)
PCaps ==
    MkPSpec("caps", "The caps to filter on", {"WRITABLE"}, TYPE_GST_PAD + 1,
            CapsValue(VideoCaps(FeaturesGL)), 0, 0, <<>>)

\* The live values of an element instance of the model.
LiveValues ==
    [n \in {"silent", "blocksize", "name", "parent", "template", "typefind",
            "flags", "priority", "caps"} |->
        CASE n = "silent" -> BoolValue(TRUE)
          [] n = "blocksize" -> NumValue("U32", 60)
          [] n = "name" -> StringValue("src0")
          [] n = "parent" -> NumValue("OTHER", 0)
          [] n = "template" -> NumValue("OTHER", 0)
          [] n = "typefind" -> BoolValue(FALSE)
          [] n = "flags" -> NumValue("FLAGS", 1)
          [] n = "priority" -> NumValue("ENUM", 1)
          [] n = "caps" -> NullCaps]

PropLists ==
    {<<>>,
     <<PSilent({"READABLE"})>>,
     <<PSilent({"READABLE", "WRITABLE"}), PName, PBlocksize({"WRITABLE"})>>,
     <<PTemplate, PSilent({"WRITABLE", "DEPRECATED"}), PParent,
       PBlocksize({"READABLE", "WRITABLE", "MUTABLE_READY"})>>,
     <<PSilent({"READABLE"}), PNoBlurb, PBlocksize({"READABLE"})>>,
     <<PPriority, PFlagsTyped, PCaps>>}

MkTemplate(name_template, direction, presence, caps) ==
    [name_template |-> name_template, direction |-> direction,
     presence |-> presence, caps |-> caps]

SrcTemplate == MkTemplate("src", "Src", "Always", CapsANY)
SinkTemplate == MkTemplate("sink", "Sink", "Always", VideoCaps(MEMORY_SYSTEM_MEMORY))
RequestTemplate == MkTemplate("src_%u", "Src", "Request", CapsEMPTY)

TemplateLists ==
    {<<>>, <<SrcTemplate, SinkTemplate>>,
     <<RequestTemplate, SrcTemplate, SinkTemplate>>}

MkPad(name, direction, pad_template, has_caps, current_caps) ==
    [name |-> name, direction |-> direction, pad_template |-> pad_template,
     has_caps |-> has_caps, current_caps |-> current_caps]

PadLists ==
    {<<>>,
     <<MkPad("src", "Src", "src", FALSE, CapsEMPTY),
       MkPad("sink", "Sink", None, TRUE, VideoCaps(FeaturesAny))>>}

NoUri == [handler |-> FALSE, type |-> "Unknown", protocols |-> <<>>]

UriChoices ==
    {NoUri,
     [handler |-> TRUE, type |-> "Src", protocols |-> <<"file", "http">>],
     [handler |-> TRUE, type |-> "Sink", protocols |-> <<>>]}

ClockChoices ==
    {[flags |-> {}, clock |-> None],
     [flags |-> {"REQUIRE_CLOCK"}, clock |-> None],
     [flags |-> {"PROVIDE_CLOCK"}, clock |-> "GstSystemClock"],
     [flags |-> {"REQUIRE_CLOCK", "PROVIDE_CLOCK"}, clock |-> None]}

BaseElement ==
    [gtype |-> TYPE_GST_PAD + 1, interfaces |-> <<>>, flags |-> {},
     clock |-> None, uri |-> NoUri, pads |-> <<>>, props |-> <<>>,
     values |-> LiveValues]

Elements ==
    { [BaseElement EXCEPT !.gtype = t] : t \in ElementTypes }
    \cup { [BaseElement EXCEPT !.interfaces = i] :
             i \in {<<"GstURIHandler">>, <<"GstChildProxy", "GstURIHandler">>} }
    \cup { [BaseElement EXCEPT !.flags = c.flags, !.clock = c.clock] :
             c \in ClockChoices }
    \cup { [BaseElement EXCEPT !.uri = u] : u \in UriChoices }
    \cup { [BaseElement EXCEPT !.pads = p] : p \in PadLists }
    \cup { [BaseElement EXCEPT !.props = p] : p \in PropLists }

MkFactory(loads, creates, rank, pad_templates, element) ==
    [loads |-> loads, creates |-> creates, rank |-> rank,
     longname |-> "Long x", klass |-> "Source/Video",
     description |-> "A test element", author |-> "Somebody",
     pad_templates |-> pad_templates, element |-> element]

BaseFactory == MkFactory(TRUE, TRUE, "Primary", <<>>, BaseElement)

\* What the feature found for the argument can load to and instantiate.
Factories ==
    { MkFactory(FALSE, FALSE, "Primary", <<>>, BaseElement),
      MkFactory(TRUE, FALSE, "Primary", <<>>, BaseElement) }
    \cup { MkFactory(TRUE, TRUE, r, <<>>, BaseElement) :
             r \in {"None", "Marginal", "Secondary", "Primary", "Unknown"} }
    \cup { MkFactory(TRUE, TRUE, "Primary", t, BaseElement) : t \in TemplateLists }
    \cup { MkFactory(TRUE, TRUE, "Primary", <<>>, e) : e \in Elements }

\* The registries of a whole-program run: plugin "a" with the element factory
\* "x" (owned by the plugin or standalone) and the typefinder "xy".
PluginVariants ==
    { MkPlugin("a", "/lib/gst.so", None), MkPlugin("a", None, "2023-01-01"),
      MkPlugin("a", NonUtf8, None) }

ProgramRegistries ==
    { [plugins |-> <<p>>,
       features |-> <<MkFeature("xy", "TypeFindFactory", "a"),
                      MkFeature("x", "ElementFactory", "a")>>] :
        p \in PluginVariants }
    \cup { [plugins |-> <<MkPlugin("a", "/lib/gst.so", None)>>,
            features |-> <<MkFeature("x", "ElementFactory", None)>>] }

\* "x" names an element factory, "xy" a feature of another kind, "y" nothing.
Args == {None, "x", "xy", "y"}

\* A lookup by name alone, of any kind of feature.
find_feature_any_kind(reg, name) ==
    SelectSeq(reg.features, LAMBDA f : f.name = name)

\* registry.find_feature(name, gst::ElementFactory::static_type()): the
\* features found (none or one).
find_feature(reg, name) ==
    SelectSeq(reg.features, LAMBDA f : f.name = name /\ is_element_factory(f))

\* feature.plugin(): the plugins of the registry with the feature's plugin name
feature_plugin(reg, feature) ==
    SelectSeq(reg.plugins, LAMBDA p : p.name = feature.plugin)

Worlds ==
    { w \in [registry : ProgramRegistries, arg : Args, factory : Factories] :
        find_feature(w.registry, w.arg) = <<>> => w.factory = BaseFactory }

-----------------------------------------------------------------------------
(* The program: main, List mode and Detail mode, one step per action.      *)

\* The exit status of a Rust process whose main thread panics.
PANIC_STATUS == 101

\* The iteration orders of the flag table that differ in what
\* print_pspec_flags prints for pspec: the loop skips the entries whose flag
\* is not set, so the set flags in every order, then the others.
IterOrdersFor(pspec) ==
    LET rest == CHOOSE p \in Perms(ParamFlags \ pspec.flags) : TRUE
    IN  { p \o rest : p \in Perms(pspec.flags) }

\* What print_feature_info returns once print_element_info has returned
\* element_info_status (lines 597-599): the status is dropped.
feature_info_status(element_info_status) == 0

\* What print_feature_info does when the lookup finds nothing (lines 592-595).
not_found(name) ==
    [out |-> println(<<"No such element or plugin '" \o name \o "'">>),
     status |-> 0 - 1]

TheFeature == find_feature(registry, arg)[1]
TheElement == factory.element

Init ==
    /\ \E w \in Worlds :
        /\ registry = w.registry
        /\ arg = w.arg
        /\ factory = w.factory
    /\ typeParent = StdParent
    /\ pc = "main"
    /\ out = <<>>
    /\ st = 0
    /\ propIdx = 0
    /\ runs = 1
    /\ prevOut = <<>>
    /\ input = None
    /\ calls = <<>>
    /\ liveReads = 0
    /\ trace = <<>>

world == <<arg, registry, factory, typeParent, input>>

\* main (lines 602-613): let mut st = 0; gst::init(); dispatch on the argument.
Main ==
    /\ pc = "main"
    /\ pc' = IF arg # None THEN "print_feature_info" ELSE "print_element_list"
    /\ trace' = Append(trace, "init")
    /\ UNCHANGED <<out, st, propIdx, runs, prevOut, calls, liveReads, world>>

\* print_element_list, called from main (line 612).
PrintElementList ==
    /\ pc = "print_element_list"
    /\ out' = out \o print_element_list(registry)
    /\ pc' = "exit"
    /\ UNCHANGED <<st, propIdx, runs, prevOut, calls, liveReads, trace, world>>

\* print_feature_info up to the call of print_element_info (lines 588-597);
\* on the not-found path st takes its return value (line 610).
PrintFeatureInfo ==
    /\ pc = "print_feature_info"
    /\ trace' = Append(trace, "find_feature")
    /\ IF find_feature(registry, arg) = <<>>
          THEN /\ out' = out \o not_found(arg).out
               /\ st' = not_found(arg).status
               /\ pc' = "exit"
          ELSE /\ pc' = "load"
               /\ UNCHANGED <<out, st>>
    /\ UNCHANGED <<propIdx, runs, prevOut, calls, liveReads, world>>

\* print_element_info: feature.load() (lines 554-558).
Load ==
    /\ pc = "load"
    /\ trace' = Append(trace, "load")
    /\ IF ~factory.loads
          THEN /\ out' = out \o println(<<"selement plugin couldn't be loaded">>)
               /\ st' = feature_info_status(0 - 1)
               /\ pc' = "exit"
          ELSE /\ pc' = "create"
               /\ UNCHANGED <<out, st>>
    /\ UNCHANGED <<propIdx, runs, prevOut, calls, liveReads, world>>

\* print_element_info: create_with_name(None) (lines 560-570). The assert of
\* line 564 holds: find_feature returned an element factory.
Create ==
    /\ pc = "create"
    /\ trace' = Append(trace, "create")
    /\ IF ~factory.creates
          THEN /\ out' = out \o println(<<"couldn't construct element for some reason">>)
               /\ st' = feature_info_status(0 - 1)
               /\ pc' = "exit"
          ELSE /\ pc' = "factory_details"
               /\ UNCHANGED <<out, st>>
    /\ UNCHANGED <<propIdx, runs, prevOut, calls, liveReads, world>>

\* line 572
FactoryDetails ==
    /\ pc = "factory_details"
    /\ out' = out \o print_factory_details_info(factory)
    /\ pc' = "plugin_info"
    /\ UNCHANGED <<st, propIdx, runs, prevOut, calls, liveReads, trace, world>>

\* lines 573-575
PluginInfo ==
    /\ pc = "plugin_info"
    /\ LET plugin == feature_plugin(registry, TheFeature)
       IN  IF plugin = <<>>
              THEN /\ pc' = "hierarchy"
                   /\ UNCHANGED <<out, st>>
              ELSE /\ out' = out \o print_plugin_info(plugin[1]).out
                   /\ IF print_plugin_info(plugin[1]).panic
                         THEN pc' = "panicked" /\ st' = PANIC_STATUS
                         ELSE pc' = "hierarchy" /\ UNCHANGED st
    /\ UNCHANGED <<propIdx, runs, prevOut, calls, liveReads, trace, world>>

\* lines 576-577
Hierarchy ==
    /\ pc = "hierarchy"
    /\ out' = out \o print_hierarchy(typeParent, TheElement.gtype)
    /\ calls' = hierarchy_foreach(typeParent, TheElement.gtype)
    /\ pc' = "interfaces"
    /\ UNCHANGED <<st, propIdx, runs, prevOut, liveReads, trace, world>>

\* line 578
Interfaces ==
    /\ pc = "interfaces"
    /\ out' = out \o print_interfaces(TheElement.interfaces)
    /\ pc' = "pad_templates"
    /\ UNCHANGED <<st, propIdx, runs, prevOut, calls, liveReads, trace, world>>

\* line 579
PadTemplates ==
    /\ pc = "pad_templates"
    /\ out' = out \o print_pad_templates_info(factory)
    /\ pc' = "clocking"
    /\ UNCHANGED <<st, propIdx, runs, prevOut, calls, liveReads, trace, world>>

\* line 580
Clocking ==
    /\ pc = "clocking"
    /\ out' = out \o print_clocking_info(TheElement)
    /\ pc' = "uri_handler"
    /\ UNCHANGED <<st, propIdx, runs, prevOut, calls, liveReads, trace, world>>

\* line 581
UriHandler ==
    /\ pc = "uri_handler"
    /\ out' = out \o print_uri_handler_info(TheElement)
    /\ pc' = "pad_info"
    /\ UNCHANGED <<st, propIdx, runs, prevOut, calls, liveReads, trace, world>>

\* line 582
PadInfo ==
    /\ pc = "pad_info"
    /\ out' = out \o print_pad_info(TheElement)
    /\ pc' = "properties"
    /\ UNCHANGED <<st, propIdx, runs, prevOut, calls, liveReads, trace, world>>

\* print_element_properties up to its loop (lines 526-533).
PropertiesHead ==
    /\ pc = "properties"
    /\ out' = out \o print_element_properties_head
    /\ propIdx' = 1
    /\ pc' = "property"
    /\ UNCHANGED <<st, runs, prevOut, calls, liveReads, trace, world>>

\* One turn of the loop of print_element_properties (lines 535-550).
Property ==
    /\ pc = "property"
    /\ propIdx <= Len(TheElement.props)
    /\ LET pspec == sorted_property_specs(TheElement)[propIdx]
       IN  \E order \in IterOrdersFor(pspec) :
            LET r == print_element_property(TheElement, pspec, order)
            IN  /\ out' = out \o r.out
                /\ liveReads' = liveReads + r.reads
                /\ IF r.panic
                      THEN pc' = "panicked" /\ st' = PANIC_STATUS
                                            /\ UNCHANGED propIdx
                      ELSE pc' = pc /\ propIdx' = propIdx + 1 /\ UNCHANGED st
    /\ UNCHANGED <<runs, prevOut, calls, trace, world>>

\* The loop is over: print_element_info returns 0 (line 585) and
\* print_feature_info returns (line 599) into st (line 610).
ElementInfoReturn ==
    /\ pc = "property"
    /\ propIdx > Len(TheElement.props)
    /\ st' = feature_info_status(0)
    /\ pc' = "exit"
    /\ UNCHANGED <<out, propIdx, runs, prevOut, calls, liveReads, trace, world>>

\* std::process::exit(st) (line 615)
Exit ==
    /\ pc = "exit"
    /\ pc' = "done"
    /\ UNCHANGED <<out, st, propIdx, runs, prevOut, calls, liveReads, trace, world>>

\* The program is run again, the registry and the element unchanged.
Rerun ==
    /\ pc \in {"done", "panicked"}
    /\ runs < MaxRuns
    /\ runs' = runs + 1
    /\ prevOut' = out
    /\ out' = <<>>
    /\ st' = 0
    /\ propIdx' = 0
    /\ calls' = <<>>
    /\ liveReads' = 0
    /\ trace' = <<>>
    /\ pc' = "main"
    /\ UNCHANGED world

Next ==
    \/ Main
    \/ PrintElementList
    \/ PrintFeatureInfo
    \/ Load
    \/ Create
    \/ FactoryDetails
    \/ PluginInfo
    \/ Hierarchy
    \/ Interfaces
    \/ PadTemplates
    \/ Clocking
    \/ UriHandler
    \/ PadInfo
    \/ PropertiesHead
    \/ Property
    \/ ElementInfoReturn
    \/ Exit
    \/ Rerun

Spec == Init /\ [][Next]_vars

-----------------------------------------------------------------------------
(* Runs of the single components on inputs drawn from bounded sets.        *)

Idle ==
    /\ out = <<>>
    /\ st = 0
    /\ propIdx = 0
    /\ runs = 1
    /\ prevOut = <<>>
    /\ calls = <<>>
    /\ liveReads = 0
    /\ trace = <<>>

\* ---- print_hierarchy on every leaf of every type system
InitHierarchy ==
    /\ typeParent \in ParentMaps
    /\ input \in Types
    /\ pc = "print_hierarchy"
    /\ arg = None
    /\ registry = [plugins |-> <<>>, features |-> <<>>]
    /\ factory = BaseFactory
    /\ Idle

CallPrintHierarchy ==
    /\ pc = "print_hierarchy"
    /\ out' = print_hierarchy(typeParent, input)
    /\ calls' = hierarchy_foreach(typeParent, input)
    /\ pc' = "returned"
    /\ UNCHANGED <<st, propIdx, runs, prevOut, liveReads, trace, world>>

NextHierarchy == CallPrintHierarchy

SpecHierarchy == InitHierarchy /\ [][NextHierarchy]_vars

\* ---- print_caps on every capability set
InitCaps ==
    /\ input \in CapsSets
    /\ pc = "print_caps"
    /\ typeParent = StdParent
    /\ arg = None
    /\ registry = [plugins |-> <<>>, features |-> <<>>]
    /\ factory = BaseFactory
    /\ Idle

CallPrintCaps ==
    /\ pc = "print_caps"
    /\ out' = print_caps(input)
    /\ pc' = "returned"
    /\ UNCHANGED <<st, propIdx, runs, prevOut, calls, liveReads, trace, world>>

NextCaps == CallPrintCaps

SpecCaps == InitCaps /\ [][NextCaps]_vars

\* ---- print_pspec_flags and print_default_property_value on one property
NumericTypes == {"I_LONG", "U_LONG", "U32", "I32", "U64", "I64", "F32", "F64"}

ValueFlagSets == {{}, {"READABLE"}, {"WRITABLE"}, {"READABLE", "WRITABLE"}}

\* A property "p" of the element's own type with its default and live value.
PropInput(flags, default_value, live, minimum, maximum, enum_values) ==
    [pspec |-> MkPSpec("p", "A property", flags, TYPE_GST_PAD + 1,
                       default_value, minimum, maximum, enum_values),
     obj |-> [n \in {"p"} |-> live]]

FlagInputs ==
    { PropInput(f, BoolValue(FALSE), BoolValue(TRUE), 0, 0, <<>>) :
        f \in SUBSET ParamFlags }

ValueInputs ==
    UNION { { PropInput(f, d, l, 0, 0, <<>>) :
                d \in {NullString, StringValue("abc")},
                l \in {NullString, StringValue("xyz")} }
            \cup { PropInput(f, BoolValue(d), BoolValue(l), 0, 0, <<>>) :
                d \in BOOLEAN, l \in BOOLEAN }
            \cup { PropInput(f, NumValue(t, r[3]), NumValue(t, l), r[1], r[2], <<>>) :
                t \in NumericTypes, r \in {<<0, 100, 50>>, <<2, 7, 3>>},
                l \in {5, 60} }
            \cup { PropInput(f, NumValue("ENUM", d), NumValue("ENUM", l), 0, 0,
                             PriorityEnum) :
                d \in {0, 1, 5}, l \in {0, 1} }
            \cup { PropInput(f, NumValue(t, 3), NumValue(t, 1), 0, 0, <<>>) :
                t \in {"FLAGS", "OTHER"} }
            \cup { PropInput(f, d, l, 0, 0, <<>>) :
                d \in {NullCaps, CapsValue(CapsANY), CapsValue(CapsEMPTY)},
                l \in {NullCaps, CapsValue(VideoCaps(FeaturesGL))} }
          : f \in ValueFlagSets }

InitProperty ==
    /\ \/ input \in FlagInputs /\ pc = "print_pspec_flags"
       \/ input \in ValueInputs /\ pc = "print_default_property_value"
    /\ typeParent = StdParent
    /\ arg = None
    /\ registry = [plugins |-> <<>>, features |-> <<>>]
    /\ factory = BaseFactory
    /\ Idle

\* print_pspec_flags as print_element_properties calls it (line 546), the
\* flag table being iterated in any order the hasher can give.
CallPrintPspecFlags ==
    /\ pc = "print_pspec_flags"
    /\ \E order \in HashMapIterOrders :
        out' = print_pspec_flags(input.pspec, 2 + 20 + 1 + 1, order)
    /\ pc' = "flags_printed"
    /\ UNCHANGED <<st, propIdx, runs, prevOut, calls, liveReads, trace, world>>

\* print_default_property_value as print_element_properties calls it
\* (lines 548-549).
CallPrintDefaultPropertyValue ==
    /\ pc = "print_default_property_value"
    /\ LET readable == "READABLE" \in input.pspec.flags
           r == print_default_property_value(input.obj, input.pspec, readable,
                                             20 + 1 + 1)
       IN  /\ out' = r.out
           /\ liveReads' = liveReads + r.reads
    /\ pc' = "value_printed"
    /\ UNCHANGED <<st, propIdx, runs, prevOut, calls, trace, world>>

NextProperty == CallPrintPspecFlags \/ CallPrintDefaultPropertyValue

SpecProperty == InitProperty /\ [][NextProperty]_vars

\* ---- List mode on every registry
InitList ==
    /\ registry \in Registries
    /\ arg = None
    /\ pc = "main"
    /\ typeParent = StdParent
    /\ factory = BaseFactory
    /\ input = None
    /\ Idle

NextList == Main \/ PrintElementList \/ Exit

SpecList == InitList /\ [][NextList]_vars

-----------------------------------------------------------------------------
(* Properties of the program.                                              *)

\* The argument names an element factory of the registry.
Resolves ==
    /\ arg # None
    /\ \E i \in 1 .. Len(registry.features) :
          /\ registry.features[i].name = arg
          /\ registry.features[i].kind = "ElementFactory"

Ended == pc \in {"exit", "done"}

\* C1: in Detail mode on a name that resolves, a run in which loading the
\* factory or instantiating the element fails ends with a non-zero status.
C1_FailureStatusNonZero ==
    (Ended /\ Resolves /\ (~factory.loads \/ ~factory.creates)) => st # 0

\* C2: in Detail mode on a name that no element factory of the registry has,
\* the run ends with a non-zero status, its whole output is the line
\* "No such element or plugin '<name>'", and neither a load nor an
\* instantiation is attempted at any point of the run.
C2_NotFound ==
    (arg # None /\ ~Resolves) =>
        /\ pc \in {"main", "print_feature_info", "exit", "done"}
        /\ "load" \notin Range(trace)
        /\ "create" \notin Range(trace)
        /\ Ended =>
              /\ st # 0
              /\ out = <<"No such element or plugin '" \o arg \o "'", NL>>
              /\ Len(Lines(out)) = 1

\* A run on the name of a feature that is no element factory has ended.
C2_Witness ==
    /\ pc = "done"
    /\ arg # None
    /\ ~Resolves
    /\ \E i \in 1 .. Len(registry.features) : registry.features[i].name = arg
    /\ st # 0

\* C3: two Detail-mode runs on the same element, registry and type system
\* print the same output.
C3_Deterministic ==
    (runs = 2 /\ arg # None /\ pc \in {"done", "panicked"}) => out = prevOut

\* C4: the flags line of print_pspec_flags holds the label of a flag if and
\* only if the flag is set, for each of the seven flags.
C4_FlagLabels ==
    pc = "flags_printed" =>
        \A f \in ParamFlags :
            FlagLabel(f) \in Range(out) <=> f \in input.pspec.flags


\* The distance of a type from the root of its parent chain.
RECURSIVE Depth(_)
Depth(t) == IF typeParent[t] = NoType THEN 0 ELSE 1 + Depth(typeParent[t])

\* The line print_hierarchy is to print for a type: the root bare, a later
\* type behind one connector, indented by its distance from the root.
ExpectedHierarchyLine(t) ==
    IF Depth(t) = 0 THEN <<TypeName(t)>>
    ELSE <<Repeat("     ", Depth(t) - 1), " +----", TypeName(t)>>

\* C5: on a chain with N ancestors above the leaf, hierarchy_foreach calls
\* the callback N+1 times: the root first, the leaf last, every type right
\* after its parent, none twice; print_hierarchy prints the root without a
\* connector and every later type at the depth of its distance from the root.
C5_HierarchyOrder ==
    pc = "returned" /\ input \in Types =>
        /\ Len(calls) = Depth(input) + 1
        /\ typeParent[calls[1]] = NoType
        /\ calls[Len(calls)] = input
        /\ \A i \in 2 .. Len(calls) : typeParent[calls[i]] = calls[i - 1]
        /\ Distinct(calls)
        /\ Lines(out) = [i \in 1 .. Len(calls) |-> ExpectedHierarchyLine(calls[i])]
                        \o << <<>> >>

\* print_hierarchy has run on a leaf with two ancestors or more.
C5_Witness ==
    /\ pc = "returned"
    /\ input \in Types
    /\ Len(calls) >= 3
    /\ Len(Lines(out)) = Len(calls) + 1

IsHeaderLine(line) == line # <<>> /\ line[1] = Spaces(6)

\* The header line a structure is to have: the "(feature)" suffix exactly
\* when the feature is present and is not the system-memory default.
ExpectedHeader(structure) ==
    IF structure.features # NoFeatures
       /\ structure.features # MEMORY_SYSTEM_MEMORY
        THEN <<Spaces(6), structure.name, "(",
               IF structure.features = FeaturesAny THEN "ANY"
               ELSE structure.features.list[1], ")">>
        ELSE <<Spaces(6), structure.name>>

\* C6: print_caps prints the single line "ANY" for ANY and "EMPTY" for EMPTY;
\* otherwise one header line per structure, in set order, with the feature
\* suffix if and only if the feature is present and not system memory.
C6_CapsHeaders ==
    pc = "returned" /\ input \in CapsSets =>
        IF input = CapsANY THEN out = <<Spaces(6), "ANY", NL>>
        ELSE IF input = CapsEMPTY THEN out = <<Spaces(6), "EMPTY", NL>>
        ELSE SelectSeq(Lines(out), IsHeaderLine)
             = [i \in 1 .. Len(input.structs) |-> ExpectedHeader(input.structs[i])]

\* print_caps has printed a set whose structures carry the ANY feature and
\* the system-memory feature.
C6_Witness ==
    /\ pc = "returned"
    /\ input \in CapsSets
    /\ Len(input.structs) = 2
    /\ input.structs[1].features = FeaturesAny
    /\ input.structs[2].features = MEMORY_SYSTEM_MEMORY
    /\ Len(SelectSeq(Lines(out), IsHeaderLine)) = 2

Serializes(field) == field.value # SerErr

\* The lines of one structure but for the header's text: a header, then one
\* line per field that serializes, in the structure's order.
ExpectedStructureLines(structure) ==
    LET ok == SelectSeq(structure.fields, Serializes)
    IN  << <<"header">> >>
        \o [j \in 1 .. Len(ok) |-> <<PadLeft(ok[j].name, 23), ": ", ok[j].value>>]

HeaderErased(lines) ==
    [i \in 1 .. Len(lines) |->
        IF IsHeaderLine(lines[i]) THEN <<"header">> ELSE lines[i]]

\* C7: a field that does not serialize costs only its own line: every
\* structure's header, every field that serializes (in order) and every later
\* structure are printed, and print_caps returns.
C7_FieldFailureLocal ==
    pc = "returned" /\ input \in CapsSets /\ input.structs # <<>> =>
        HeaderErased(Lines(out))
        = Flatten([i \in 1 .. Len(input.structs) |->
                      ExpectedStructureLines(input.structs[i])])

\* print_caps has printed a structure whose second field of three does not
\* serialize, and a structure after it.
C7_Witness ==
    /\ pc = "returned"
    /\ input \in CapsSets
    /\ Len(input.structs) = 2
    /\ Len(input.structs[1].fields) = 3
    /\ ~Serializes(input.structs[1].fields[2])
    /\ Serializes(input.structs[1].fields[3])
    /\ Len(input.structs[2].fields) = 1
    /\ Len(Lines(out)) = 5

\* The value a property is to be shown with: the live one when it is readable.
ShownValue ==
    IF "READABLE" \in input.pspec.flags
        THEN input.obj[input.pspec.name] ELSE input.pspec.default_value

\* C8: print_default_property_value reads the live value once when the
\* property is readable and never when it is not, in which case it shows the
\* declared default; a ranged numeric property shows the minimum and maximum
\* of its spec, and an integer one the selected value after "Default".
C8_ValueSelection ==
    pc = "value_printed" =>
        /\ liveReads = IF "READABLE" \in input.pspec.flags THEN 1 ELSE 0
        /\ ShownValue.type \in NumericTypes =>
              /\ SubSeq(out, 5, 12)
                 = <<"Range", ": ", to_string(input.pspec.minimum), " - ",
                     to_string(input.pspec.maximum), ". ", "Default", ": ">>
              /\ ShownValue.type \notin {"I_LONG", "U_LONG"} =>
                    out[13] = to_string(ShownValue.n)
        /\ ShownValue.type = "STRING" /\ ~ShownValue.null =>
              out[7] = "\"" \o ShownValue.s \o "\""
        /\ (/\ "READABLE" \notin input.pspec.flags
            /\ input.pspec.default_value = NumValue("I32", 50)
            /\ input.pspec.minimum = 0
            /\ input.pspec.maximum = 100) =>
              out = <<Spaces(22), ": ", "Integer", ". ", "Range", ": ", "0",
                      " - ", "100", ". ", "Default", ": ", "50", NL>>

\* The unreadable integer property with range 0 - 100, default 50 and another
\* live value has been printed.
C8_Witness ==
    /\ pc = "value_printed"
    /\ "READABLE" \notin input.pspec.flags
    /\ input.pspec.default_value = NumValue("I32", 50)
    /\ input.pspec.minimum = 0
    /\ input.pspec.maximum = 100
    /\ input.obj[input.pspec.name] = NumValue("I32", 60)
    /\ liveReads = 0
    /\ "50" \in Range(out)

\* C9: a boolean property is shown as the bare token true or false, a string
\* property as the quoted string or as null when absent.
C9_BoolBare ==
    pc = "value_printed" =>
        /\ ShownValue.type = "BOOL" => out[7] = bool_to_string(ShownValue.b)
        /\ ShownValue.type = "STRING" =>
              out[7] = IF ShownValue.null THEN "null"
                       ELSE "\"" \o ShownValue.s \o "\""

\* The element factories List mode is to show: those a plugin of the
\* registry contributes.
ListedFeatures ==
    { f \in Range(registry.features) :
        /\ f.kind = "ElementFactory"
        /\ \E p \in Range(registry.plugins) : p.name = f.plugin }

\* C10: whatever order the registry enumerates plugins and features in, List
\* mode prints its lines ordered by plugin name and, within a plugin, by
\* feature name (byte-wise), exactly one line
\* "<plugin>:  <element>: <longname>" per element factory of a plugin, and
\* none for a feature of another kind.
C10_ListSorted ==
    (arg = None /\ Ended) =>
        LET lines == Lines(out)
        IN  /\ \A i \in 1 .. Len(lines) :
                  \E f \in ListedFeatures :
                      lines[i] = <<f.plugin, ":  ", f.name, ": ", f.longname>>
            /\ \A f \in ListedFeatures :
                  \E i \in 1 .. Len(lines) : lines[i][1] = f.plugin /\ lines[i][3] = f.name
            /\ Len(lines) = Cardinality(ListedFeatures)
            /\ \A i, j \in 1 .. Len(lines) :
                  i < j =>
                      \/ str_lt(lines[i][1], lines[j][1])
                      \/ lines[i][1] = lines[j][1] /\ str_lt(lines[i][3], lines[j][3])

\* List mode has run on a registry that enumerates two plugins and two
\* element factories out of name order, beside a feature of another kind.
C10_Witness ==
    /\ arg = None
    /\ pc = "done"
    /\ Len(registry.plugins) >= 2
    /\ str_lt(registry.plugins[2].name, registry.plugins[1].name)
    /\ Len(Lines(out)) >= 2
    /\ Lines(out)[1][1] # Lines(out)[2][1]


\* The tokens that open the sections of a Detail-mode report.
SectionMarkers ==
    {"Factory details:", "Plugin details:", TypeName(TYPE_OBJECT),
     "Implemented Interfaces", "Pad Templates",
     "Clocking interaction", "Element has no clocking capabilities.",
     "URI handling capabilities:", "Element has no URI handling capabilities.",
     "Pads:", "Element Properties"}

IsSectionMarker(token) == token \in SectionMarkers

\* The sections a report of the resolved element is to hold, in order.
ExpectedSections ==
    <<"Factory details:">>
    \o (IF \E p \in Range(registry.plugins) : p.name = TheFeature.plugin
          THEN <<"Plugin details:">> ELSE <<>>)
    \o <<TypeName(TYPE_OBJECT)>>
    \o (IF TheElement.interfaces # <<>> THEN <<"Implemented Interfaces">> ELSE <<>>)
    \o <<"Pad Templates">>
    \o (IF TheElement.flags # {} THEN <<"Clocking interaction">>
        ELSE <<"Element has no clocking capabilities.">>)
    \o (IF TheElement.uri.handler THEN <<"URI handling capabilities:">>
        ELSE <<"Element has no URI handling capabilities.">>)
    \o <<"Pads:", "Element Properties">>

IsPrefixOf(s, t) == Len(s) <= Len(t) /\ SubSeq(t, 1, Len(s)) = s

\* The positions in the stream of the labels of the lines that name a pad
\* template, a live pad and a property.
TemplateLabels(stream) ==
    { k \in 2 .. Len(stream) - 3 :
        /\ stream[k] \in {"SOURCE template", "SINK template", "UNKNOWN template"}
        /\ stream[k - 1] = Spaces(2) /\ stream[k + 3] = NL }

PadLabels(stream) ==
    { k \in 2 .. Len(stream) - 3 :
        /\ stream[k] \in {"SRC", "SINK", "UNKNOWN"}
        /\ stream[k - 1] = Spaces(2) /\ stream[k + 3] = NL }

PropertyLabels(stream) ==
    { k \in 2 .. Len(stream) - 3 :
        /\ \E p \in Range(TheElement.props) : stream[k] = PadRight(p.name, 20)
        /\ stream[k - 1] = Spaces(2) /\ stream[k + 3] = NL }

\* The n-th position of a set of positions.
NthOf(positions, n) ==
    CHOOSE k \in positions : Cardinality({ m \in positions : m < k }) = n - 1

\* The properties the report is to show: those not owned by the generic
\* base object, framework object or pad type.
OwnProperties ==
    { p \in Range(TheElement.props) :
        p.owner_type \notin {TYPE_OBJECT, TYPE_GST_OBJECT, TYPE_GST_PAD} }

SuccessfulDetailRun ==
    pc = "done" /\ Resolves /\ factory.loads /\ factory.creates

\* C11: in Detail mode the sections come out in the fixed order, each at most
\* once, and none before the load and the instantiation have succeeded; a
\* successful run holds them all (plugin details only with an owning plugin,
\* interfaces only when there are some), the pad templates sorted by name
\* pattern, the live pads in instantiation order and, last, the properties
\* sorted by name without those the base object, framework object or pad
\* type owns.
C11_SectionOrder ==
    Resolves =>
        LET sections == SelectSeq(out, IsSectionMarker)
            templates == TemplateLabels(out)
            pads == PadLabels(out)
            props == PropertyLabels(out)
        IN  /\ IsPrefixOf(sections, ExpectedSections)
            /\ sections # <<>> =>
                  /\ factory.loads /\ factory.creates
                  /\ IsPrefixOf(<<"init", "find_feature", "load", "create">>, trace)
            /\ SuccessfulDetailRun =>
                  /\ sections = ExpectedSections
                  /\ Cardinality(templates) = Len(factory.pad_templates)
                  /\ { out[k + 2] : k \in templates }
                     = { "'" \o t.name_template \o "'" : t \in Range(factory.pad_templates) }
                  /\ \A i, j \in templates :
                        i < j =>
                            \E t, u \in Range(factory.pad_templates) :
                                /\ out[i + 2] = "'" \o t.name_template \o "'"
                                /\ out[j + 2] = "'" \o u.name_template \o "'"
                                /\ str_lt(t.name_template, u.name_template)
                  /\ Cardinality(pads) = Len(TheElement.pads)
                  /\ \A n \in 1 .. Len(TheElement.pads) :
                        out[NthOf(pads, n) + 2] = "'" \o TheElement.pads[n].name \o "'"
                  /\ Cardinality(props) = Cardinality(OwnProperties)
                  /\ { out[k] : k \in props }
                     = { PadRight(p.name, 20) : p \in OwnProperties }
                  /\ \A i, j \in props :
                        i < j =>
                            \E p, q \in OwnProperties :
                                /\ out[i] = PadRight(p.name, 20)
                                /\ out[j] = PadRight(q.name, 20)
                                /\ str_lt(p.name, q.name)
                  /\ \A k \in templates \cup pads \cup props :
                        \A m \in 1 .. Len(out) :
                            /\ (out[m] = "Pad Templates" /\ k \in templates) => m < k
                            /\ (out[m] = "Pads:" /\ k \in pads) => m < k
                            /\ (out[m] = "Element Properties" /\ k \in props) => m < k
                            /\ (out[m] \in {"Clocking interaction",
                                            "Element has no clocking capabilities."}
                                /\ k \in templates) => k < m

\* A run has completed on an element of a plugin whose class lists two own
\* properties out of name order among properties of the base types.
C11_Witness ==
    /\ SuccessfulDetailRun
    /\ st = 0
    /\ "Plugin details:" \in Range(out)
    /\ Cardinality(OwnProperties) = 2
    /\ Len(TheElement.props) = 4
    /\ str_lt(TheElement.props[4].name, TheElement.props[2].name)
    /\ SelectSeq(out, IsSectionMarker) = ExpectedSections


\* The entry of the property whose name line has its label at position k:
\* the name line, the flags line after it and a value line after that.
HasEntryAt(stream, k) ==
    /\ k + 6 <= Len(stream)
    /\ stream[k + 4] = Spaces(2 + 20 + 1 + 1) /\ stream[k + 5] = "flags"
    /\ Cardinality({ m \in k .. Len(stream) :
                        /\ stream[m] = NL
                        /\ \A j \in PropertyLabels(stream) : j > k => m < j }) >= 3

\* C12: a Detail-mode run on an element that is found, loads and instantiates
\* is not aborted by any of its properties, and once it has ended every
\* property not owned by a base type has its entry of a name line, a flags
\* line and a value line, a property without blurb and a property of a flags
\* or unhandled type included.
C12_AllPropertiesPrinted ==
    (Resolves /\ factory.loads /\ factory.creates) =>
        /\ "Element Properties" \in Range(out) => pc # "panicked"
        /\ pc = "done" =>
              \A p \in OwnProperties :
                  \E k \in PropertyLabels(out) :
                      out[k] = PadRight(p.name, 20) /\ HasEntryAt(out, k)

=============================================================================
